---- MODULE Spec2Model ----
(***************************************************************************)
(* Model of the resource-count notebook compare.ipynb.                     *)
(*                                                                         *)
(* Numbers: every coefficient, tolerance and accuracy is an integer count  *)
(* of units of 1e-8, so 0.001 is 100000 and 1e-7 is 10; where the code     *)
(* does float arithmetic on it, the count stands for the double nearest to *)
(* that decimal.  A complex coefficient is the pair <<re, im>>.            *)
(* Strings: a Python str is a sequence of one-character strings.           *)
(* An of.QubitOperator is the sequence of its (term, coefficient) items in *)
(* dict order; a term is the tuple of (index, pauli) pairs, by index.      *)
(* A cirq.PauliSum is the sequence of its terms in LinearDict order; a     *)
(* term is [key |-> qubit -> pauli, coefficient |-> <<re, im>>].           *)
(***************************************************************************)
EXTENDS Integers, Sequences, FiniteSets, TLC

VARIABLES
    pc,                      \* position of the run of the specification
    cell,                    \* the code cell of the notebook to run next
    hamiltonian_openfermion, \* the of.QubitOperator (cell 10), <<>> unbound
    drop_term_if,            \* argument of preprocess_hamiltonian
    hamiltonian,             \* the cirq.PauliSum (cell 14)
    hamiltonian_type,        \* the type of the kernel's hamiltonian
    calls,                   \* per input term, the predicates called on it
    H,                       \* result of cirq_pauli_sum_to_qiskit_pauli_op
    bound,                   \* names bound in the kernel
    errors,                  \* <<cell, error, name>> of every error raised
    nterms, nqubits,         \* statistics (cells 11, 12 and 16)
    error, nsteps,           \* Trotter-step cell (cell 26); error is a double
    epsilons, kvals, all_shots, \* shot-count cell (cell 29)
    plotted                  \* the (kval, shots) pairs of the plot cell

vars == <<pc, cell, hamiltonian_openfermion, drop_term_if, hamiltonian,
          hamiltonian_type, calls, H, bound, errors, nterms, nqubits, error,
          nsteps, epsilons, kvals, all_shots, plotted>>

(***************************************************************************)
(* Bounds of the model.                                                    *)
(***************************************************************************)
MaxTerms == 2          \* terms of an input of preprocess_hamiltonian
MaxPreds == 2          \* predicates in drop_term_if
MaxSumTerms == 2       \* terms of an input of the conversion
MaxNotebookTerms == 2  \* terms of the notebook's Hamiltonian
MaxCoefficients == 2   \* coefficients of an H of the Trotter-step cell

(***************************************************************************)
(* Program constants, in units of 1e-8.                                    *)
(***************************************************************************)
Atol == 10             \* atol=1e-7
Epsilon == 100000      \* epsilon: float = 0.001

Paulis == {"X", "Y", "Z"}
\* Qubit indices of the inputs: one with a single digit, one with two.
QubitIndices == {0, 11}

Abs(x) == IF x < 0 THEN -x ELSE x
\* The double 0.0; a positive double is [m, e], see below.
FloatZero == [m |-> <<>>, e |-> 0]
Zero == <<0, 0>>
CAdd(a, b) == <<a[1] + b[1], a[2] + b[2]>>

Min(S) == CHOOSE x \in S : \A y \in S : x <= y

\* sorted(S) of a set of integers
RECURSIVE Sorted(_)
Sorted(S) ==
    IF S = {} THEN <<>> ELSE <<Min(S)>> \o Sorted(S \ {Min(S)})

(***************************************************************************)
(* str(index) and int(text)                                                *)
(***************************************************************************)
\* str(n) of a non-negative integer: its decimal digits
DigitChars == <<"0", "1", "2", "3", "4", "5", "6", "7", "8", "9">>

RECURSIVE Str(_)
Str(n) ==
    IF n < 10 THEN <<DigitChars[n + 1]>>
    ELSE Str(n \div 10) \o <<DigitChars[(n % 10) + 1]>>

DigitValue(c) == (CHOOSE d \in 1..10 : DigitChars[d] = c) - 1

\* int(text)
RECURSIVE ParseInt(_)
ParseInt(s) ==
    IF Len(s) = 1 THEN DigitValue(s[1])
    ELSE 10 * ParseInt(SubSeq(s, 1, Len(s) - 1)) + DigitValue(s[Len(s)])

\* sep.join(parts)
RECURSIVE Join(_, _)
Join(sep, parts) ==
    IF parts = <<>> THEN <<>>
    ELSE IF Len(parts) = 1 THEN parts[1]
    ELSE parts[1] \o sep \o Join(sep, Tail(parts))

\* text.split(): the maximal runs of non-blank characters
RECURSIVE SplitFrom(_, _, _)
SplitFrom(s, i, cur) ==
    IF i > Len(s) THEN (IF cur = <<>> THEN <<>> ELSE <<cur>>)
    ELSE IF s[i] = " "
         THEN (IF cur = <<>> THEN <<>> ELSE <<cur>>) \o SplitFrom(s, i + 1, <<>>)
         ELSE SplitFrom(s, i + 1, Append(cur, s[i]))

Split(s) == SplitFrom(s, 1, <<>>)

(***************************************************************************)
(* preprocess_hamiltonian                                                  *)
(***************************************************************************)
\* key = " ".join(pauli + str(index) for index, pauli in term)
Key(term) ==
    Join(<<" ">>, [i \in 1..Len(term) |-> <<term[i][2]>> \o Str(term[i][1])])

\* of.QubitOperator(key, coefficient): each token is a Pauli letter followed by
\* its index; the factors are ordered by index.
QubitOperatorTerm(key) ==
    LET tokens == Split(key)
        fac(t) == <<ParseInt(Tail(t)), Head(t)>>
        idx == {fac(tokens[i])[1] : i \in 1..Len(tokens)}
        order == Sorted(idx)
        at(q) == CHOOSE i \in 1..Len(tokens) : fac(tokens[i])[1] = q
    IN  [n \in 1..Len(order) |-> fac(tokens[at(order[n])])]

QubitOperator(key, coefficient) == << <<QubitOperatorTerm(key), coefficient>> >>

\* The cirq gate that openfermion makes of a Pauli letter.
CirqPauli(letter) ==
    CASE letter = "X" -> "cirq.X"
      [] letter = "Y" -> "cirq.Y"
      [] letter = "Z" -> "cirq.Z"

\* The frozenset of (qubit, gate) items that keys a term of a PauliSum: the
\* factor (index, letter) acts on cirq.LineQubit(index).
PauliStringKey(term) ==
    [q \in {term[i][1] : i \in 1..Len(term)} |->
        CirqPauli(term[CHOOSE i \in 1..Len(term) : term[i][1] = q][2])]

\* PauliSum.__iadd__ of one PauliString: the coefficient is added to that of
\* the term with the same key, and a term whose coefficient is zero is removed.
PauliSumAdd(sum, ps) ==
    IF \E i \in 1..Len(sum) : sum[i].key = ps.key
    THEN LET i == CHOOSE i \in 1..Len(sum) : sum[i].key = ps.key
             c == CAdd(sum[i].coefficient, ps.coefficient)
         IN  IF c = Zero
             THEN SubSeq(sum, 1, i - 1) \o SubSeq(sum, i + 1, Len(sum))
             ELSE [sum EXCEPT ![i].coefficient = c]
    ELSE IF ps.coefficient = Zero THEN sum ELSE Append(sum, ps)

\* of.transforms.qubit_operator_to_pauli_sum(operator)
RECURSIVE QubitOperatorToPauliSumFrom(_, _, _)
QubitOperatorToPauliSumFrom(operator, i, sum) ==
    IF i > Len(operator) THEN sum
    ELSE QubitOperatorToPauliSumFrom(operator, i + 1,
            PauliSumAdd(sum, [key |-> PauliStringKey(operator[i][1]),
                              coefficient |-> operator[i][2]]))

qubit_operator_to_pauli_sum(operator) ==
    QubitOperatorToPauliSumFrom(operator, 1, <<>>)

\* Variant: of.QubitOperator(key) without the coefficient, which is then 1.0.
ConvertedTermDefaultCoefficient(term, coefficient) ==
    qubit_operator_to_pauli_sum(QubitOperator(Key(term), <<100000000, 0>>))[1]

\* The term that "if add_term:" adds to new: next(iter(...)) of the converted
\* one-term operator.
ConvertedTerm(term, coefficient) ==
    qubit_operator_to_pauli_sum(QubitOperator(Key(term), coefficient))[1]

\* Variant: a predicate that takes every term on at most one qubit.
IsIdentityOrSingle(term) == Len(term) <= 1

\* The predicates a caller passes in drop_term_if.
IsIdentity(term) == term = <<>>           \* lambda term: term == ()
ActsOnQubitZero(term) == \E i \in 1..Len(term) : term[i][1] = 0
PredicatePool == {"is_identity", "acts_on_qubit_zero"}
Call(drop_term, term) ==
    IF drop_term = "is_identity" THEN IsIdentity(term) ELSE ActsOnQubitZero(term)

\* Variant: the inner loop without its break.
RECURSIVE DropScanNoBreak(_, _, _)
DropScanNoBreak(term, preds, j) ==
    IF j > Len(preds) THEN [add_term |-> TRUE, called |-> <<>>]
    ELSE LET rest == DropScanNoBreak(term, preds, j + 1)
         IN  [add_term |-> rest.add_term /\ ~Call(preds[j], term),
              called |-> <<j>> \o rest.called]

\* The inner loop "for drop_term in drop_term_if" from position j on:
\* add_term, and the positions of the predicates it called.
RECURSIVE DropScan(_, _, _)
DropScan(term, preds, j) ==
    IF j > Len(preds) THEN [add_term |-> TRUE, called |-> <<>>]
    ELSE IF Call(preds[j], term)
         THEN [add_term |-> FALSE, called |-> <<j>>]
         ELSE LET rest == DropScan(term, preds, j + 1)
              IN  [add_term |-> rest.add_term, called |-> <<j>> \o rest.called]

\* The outer loop "for i, term in enumerate(hamiltonian.terms)" from item i on.
RECURSIVE PreprocessFrom(_, _, _, _)
PreprocessFrom(operator, preds, i, new) ==
    IF i > Len(operator) THEN new
    ELSE LET term == operator[i][1]
         IN  PreprocessFrom(operator, preds, i + 1,
                IF DropScan(term, preds, 1).add_term
                THEN PauliSumAdd(new, ConvertedTerm(term, operator[i][2]))
                ELSE new)

\* "if drop_term_if is None: drop_term_if = []"
DropList(arg) == IF arg.is_none THEN <<>> ELSE arg.list

preprocess_hamiltonian(operator, arg) ==
    PreprocessFrom(operator, DropList(arg), 1, <<>>)

PredicateCalls(operator, arg) ==
    [i \in 1..Len(operator) |-> DropScan(operator[i][1], DropList(arg), 1).called]

(***************************************************************************)
(* cirq_pauli_sum_to_qiskit_pauli_op                                       *)
(***************************************************************************)
\* cirq_pauli_to_str = {cirq.X: "X", cirq.Y: "Y", cirq.Z: "Z"}
cirq_pauli_to_str(gate) ==
    CASE gate = "cirq.X" -> "X"
      [] gate = "cirq.Y" -> "Y"
      [] gate = "cirq.Z" -> "Z"

\* pauli_sum.qubits: the qubits of all the terms, sorted
PauliSumQubits(pauli_sum) ==
    Sorted(UNION {DOMAIN pauli_sum[i].key : i \in 1..Len(pauli_sum)})

\* The inner loop "for qubit in qubits": the label of one term.
PauliLabel(term, qubits) ==
    [j \in 1..Len(qubits) |->
        IF qubits[j] \notin DOMAIN term.key THEN "I"
        ELSE cirq_pauli_to_str(term.key[qubits[j]])]

\* np.isclose(x, 0.0, atol=1e-7): |x - 0.0| <= atol + rtol * |0.0|
IsCloseToZero(x) == Abs(x) <= Atol

\* The coefficient appended to coeffs: term.coefficient.real
AppendedCoefficient(coefficient) == coefficient[1]

\* A call that raised the error and so has no value.
Raised(error_name) == [status |-> error_name, terms |-> <<>>, coeffs |-> <<>>]

\* SparsePauliOp(terms, coeffs), the constructor of Qiskit, as the return
\* statement calls it: what the call can come to.  A list of no labels is
\* refused with a QiskitError ("Input Pauli list is empty").  A label of no
\* characters, which the loop builds for a sum that acts on no qubit, is
\* refused with a QiskitError by the releases of Qiskit whose labels need a
\* letter and taken by the others; the source names no release.
SparsePauliOp(terms, coeffs) ==
    IF terms = <<>> THEN {Raised("QiskitError")}
    ELSE {[status |-> "returned", terms |-> terms, coeffs |-> coeffs]}
         \cup (IF \E i \in 1..Len(terms) : terms[i] = <<>>
               THEN {Raised("QiskitError")} ELSE {})

\* The loop "for i, term in enumerate(pauli_sum)" from term i on, then the
\* return: what the call can come to.  A failed assert leaves the function
\* without a value, and so does a constructor that raises.
RECURSIVE ConvertFrom(_, _, _, _, _)
ConvertFrom(pauli_sum, qubits, i, terms, coeffs) ==
    IF i > Len(pauli_sum) THEN SparsePauliOp(terms, coeffs)
    ELSE IF ~IsCloseToZero(pauli_sum[i].coefficient[2])
         THEN {Raised("AssertionError")}
         ELSE ConvertFrom(pauli_sum, qubits, i + 1,
                  Append(terms, PauliLabel(pauli_sum[i], qubits)),
                  Append(coeffs, AppendedCoefficient(pauli_sum[i].coefficient)))

cirq_pauli_sum_to_qiskit_pauli_op(pauli_sum) ==
    ConvertFrom(pauli_sum, PauliSumQubits(pauli_sum), 1, <<>>, <<>>)

NoOperator == [status |-> "none", terms |-> <<>>, coeffs |-> <<>>]

(***************************************************************************)
(* Inputs                                                                  *)
(***************************************************************************)
\* The term (tuple of (index, letter), by index) of an assignment f.
TermOf(f) ==
    LET order == Sorted(DOMAIN f)
    IN  [n \in 1..Len(order) |-> <<order[n], f[order[n]]>>]

TermPool ==
    {TermOf(f) : f \in UNION {[S -> Paulis] : S \in SUBSET QubitIndices}}

\* The terms of the notebook's Hamiltonian: products of X on the first qubit
\* index and Y on the second, the identity term among them.
NotebookTermPool ==
    {TermOf([q \in S |-> IF q = Min(QubitIndices) THEN "X" ELSE "Y"]) :
        S \in SUBSET QubitIndices}

\* Coefficients: 0.0012, and -0.0004 + 1e-7 i.
Coefficients == {<<120000, 0>>, <<-40000, 10>>}
\* Real coefficients, as the Jordan-Wigner transform of a molecular
\* Hamiltonian has: 0.0012, -0.0004 and 0.0215.
RealCoefficients == {<<120000, 0>>, <<-40000, 0>>, <<2150000, 0>>}
\* Coefficients with an imaginary part of 0, of 1e-7 and of -1.1e-7.
ComplexCoefficients == {<<120000, 0>>, <<-40000, 10>>, <<50000, -11>>}

\* The QubitOperators of at most n terms: distinct terms, non-zero coefficients.
Operators(n, terms, coefficients) ==
    UNION {{op \in [1..k -> terms \X coefficients] :
               \A i, j \in 1..k : op[i][1] = op[j][1] => i = j} : k \in 0..n}

\* The PauliSums of at most n terms.
PauliSums(n, coefficients) ==
    {qubit_operator_to_pauli_sum(op) : op \in Operators(n, TermPool, coefficients)}

\* The argument of the "Drop identity" call: [lambda term: term == ()]
DropIdentity == [is_none |-> FALSE, list |-> <<"is_identity">>]

DropArgs ==
    {[is_none |-> TRUE, list |-> <<>>]} \cup
    {[is_none |-> FALSE, list |-> l] :
        l \in UNION {[1..k -> PredicatePool] : k \in 0..MaxPreds}}

Unset ==
    /\ cell = 0
    /\ hamiltonian_type = "unbound"
    /\ bound = {}
    /\ errors = {}
    /\ nterms = 0
    /\ nqubits = 0
    /\ error = FloatZero
    /\ nsteps = 0
    /\ epsilons = <<>>
    /\ kvals = <<>>
    /\ all_shots = <<>>
    /\ plotted = <<>>

notebook == <<cell, hamiltonian_type, bound, errors, nterms, nqubits, error,
              nsteps, epsilons, kvals, all_shots, plotted>>

(***************************************************************************)
(* Spec: calls of preprocess_hamiltonian                                   *)
(***************************************************************************)
Init ==
    /\ pc = "start"
    /\ hamiltonian_openfermion \in Operators(MaxTerms, TermPool, Coefficients)
    /\ drop_term_if \in DropArgs
    /\ hamiltonian = <<>>
    /\ calls = <<>>
    /\ H = NoOperator
    /\ Unset

CallPreprocess ==
    /\ pc = "start"
    /\ hamiltonian' = preprocess_hamiltonian(hamiltonian_openfermion, drop_term_if)
    /\ calls' = PredicateCalls(hamiltonian_openfermion, drop_term_if)
    /\ pc' = "preprocessed"
    /\ UNCHANGED <<hamiltonian_openfermion, drop_term_if, H, notebook>>

Next == CallPreprocess

Spec == Init /\ [][Next]_vars

(***************************************************************************)
(* SpecConvert: calls of cirq_pauli_sum_to_qiskit_pauli_op                 *)
(***************************************************************************)
\* The sums converted: the empty sum and the sum of the identity term alone
\* among them.
InitConvert ==
    /\ pc = "sum"
    /\ hamiltonian_openfermion = <<>>
    /\ drop_term_if = [is_none |-> TRUE, list |-> <<>>]
    /\ hamiltonian \in PauliSums(MaxSumTerms, ComplexCoefficients)
    /\ calls = <<>>
    /\ H = NoOperator
    /\ Unset

CallConvert ==
    /\ pc = "sum"
    /\ H' \in cirq_pauli_sum_to_qiskit_pauli_op(hamiltonian)
    /\ pc' = "converted"
    /\ UNCHANGED <<hamiltonian_openfermion, drop_term_if, hamiltonian, calls,
                   notebook>>

NextConvert == CallConvert

SpecConvert == InitConvert /\ [][NextConvert]_vars

(***************************************************************************)
(* Python floats: IEEE 754 doubles, zero or positive.  A positive double   *)
(* is [m, e], the value m * 2^e with 2^52 <= m < 2^53, and 0.0 is          *)
(* FloatZero.  A natural number of any size is the sequence of its digits  *)
(* in base 32768, lowest first, without leading zeros; m is such a         *)
(* sequence.                                                               *)
(***************************************************************************)
Base == 32768
BaseBits == 15
DigitRadix == 8

Zeros(n) == [i \in 1..n |-> 0]

\* The digit i of a, zero past its end.
Digit(a, i) == IF i <= Len(a) THEN a[i] ELSE 0

\* a without its leading zero digits
Trim(a) ==
    LET nonzero == {i \in 1..Len(a) : a[i] # 0}
    IN  IF nonzero = {} THEN <<>>
        ELSE SubSeq(a, 1, CHOOSE i \in nonzero : \A j \in nonzero : j <= i)

RECURSIVE BigOfNat(_)
BigOfNat(n) == IF n = 0 THEN <<>> ELSE <<n % Base>> \o BigOfNat(n \div Base)

\* a + b: a carry enters digit i when a lower digit overflows and every digit
\* between passes it on.
BigAdd(a, b) ==
    LET n == IF Len(a) < Len(b) THEN Len(b) ELSE Len(a)
        s(i) == Digit(a, i) + Digit(b, i)
        carry(i) == IF \E j \in 1..(i - 1) :
                          /\ s(j) >= Base
                          /\ \A k \in (j + 1)..(i - 1) : s(k) = Base - 1
                    THEN 1 ELSE 0
    IN  Trim([i \in 1..(n + 1) |-> (s(i) + carry(i)) % Base])

\* a - b, for a >= b
BigSub(a, b) ==
    LET borrow(i) == IF \E j \in 1..(i - 1) :
                           /\ Digit(a, j) < Digit(b, j)
                           /\ \A k \in (j + 1)..(i - 1) : Digit(a, k) = Digit(b, k)
                     THEN 1 ELSE 0
    IN  Trim([i \in 1..Len(a) |-> (a[i] - Digit(b, i) - borrow(i)) % Base])

\* a < b
BigLess(a, b) ==
    \/ Len(a) < Len(b)
    \/ /\ Len(a) = Len(b)
       /\ \E i \in 1..Len(a) :
             /\ a[i] < b[i]
             /\ \A j \in (i + 1)..Len(a) : a[j] = b[j]

\* a * d, for d in 0..Base
BigMulDigit(a, d) ==
    BigAdd([i \in 1..Len(a) |-> (a[i] * d) % Base],
           <<0>> \o [i \in 1..Len(a) |-> (a[i] * d) \div Base])

\* a * b
RECURSIVE BigMul(_, _)
BigMul(a, b) ==
    IF b = <<>> THEN <<>>
    ELSE LET rest == BigMul(a, Tail(b))
         IN  IF rest = <<>> THEN BigMulDigit(a, Head(b))
             ELSE BigAdd(BigMulDigit(a, Head(b)), <<0>> \o rest)

\* a * 2^k
BigShiftLeft(a, k) ==
    IF a = <<>> THEN a
    ELSE Zeros(k \div BaseBits) \o BigMulDigit(a, 2 ^ (k % BaseBits))

\* a div 2^k
BigShiftRight(a, k) ==
    LET n == k \div BaseBits
        t == k % BaseBits
    IN  Trim([i \in 1..(Len(a) - n) |->
                 (a[i + n] \div 2 ^ t)
                 + (Digit(a, i + n + 1) % 2 ^ t) * 2 ^ (BaseBits - t)])

\* d * b <= r
Fits(d, b, r) == ~BigLess(r, BigMulDigit(b, d))

\* The greatest digit d with d * b <= r among lo, lo + 1, ..., for r below
\* (lo + DigitRadix * step) * b: its octal digits, highest first.
RECURSIVE QuotientDigit(_, _, _, _)
QuotientDigit(r, b, lo, step) ==
    LET k == CHOOSE n \in 0..(DigitRadix - 1) :
                /\ Fits(lo + n * step, b, r)
                /\ n = DigitRadix - 1 \/ ~Fits(lo + (n + 1) * step, b, r)
    IN  IF step = 1 THEN lo + k
        ELSE QuotientDigit(r, b, lo + k * step, step \div DigitRadix)

\* Long division of a by b, acc holding the quotient and the remainder of
\* the leading digits of a taken so far, one quotient digit for each.
RECURSIVE BigDivFrom(_, _, _)
BigDivFrom(a, b, acc) ==
    IF Len(acc.q) = Len(a) THEN [q |-> Trim(acc.q), r |-> acc.r]
    ELSE LET r2 == Trim(<<a[Len(a) - Len(acc.q)]>> \o acc.r)
             d == QuotientDigit(r2, b, 0, Base \div DigitRadix)
         IN  BigDivFrom(a, b, [q |-> <<d>> \o acc.q,
                               r |-> BigSub(r2, BigMulDigit(b, d))])

\* [q, r] with a = q * b + r and r < b
BigDivMod(a, b) ==
    IF BigLess(a, b) THEN [q |-> <<>>, r |-> a]
    ELSE BigDivFrom(a, b, [q |-> <<>>, r |-> <<>>])

\* 2^k
BigPow2(k) == Zeros(k \div BaseBits) \o <<2 ^ (k % BaseBits)>>

\* The number of bits of a digit, and of a number.
DigitBits(d) ==
    CHOOSE k \in 0..BaseBits : d < 2 ^ k /\ (k = 0 \/ d >= 2 ^ (k - 1))

BigBits(a) ==
    IF a = <<>> THEN 0 ELSE BaseBits * (Len(a) - 1) + DigitBits(a[Len(a)])

\* The double nearest to n * 2^e, a tie going to the even significand: a
\* double is [m, e] for m * 2^e with m of 53 bits.
FloatRound(n, e) ==
    IF n = <<>> THEN FloatZero
    ELSE IF BigBits(n) <= 53
    THEN [m |-> BigShiftLeft(n, 53 - BigBits(n)), e |-> e - (53 - BigBits(n))]
    ELSE LET s == BigBits(n) - 53
             q == BigShiftRight(n, s)
             r == BigSub(n, BigShiftLeft(q, s))
             half == BigPow2(s - 1)
             up == BigLess(half, r) \/ (r = half /\ q[1] % 2 = 1)
             m == IF up THEN BigAdd(q, <<1>>) ELSE q
         IN  IF m = BigPow2(53) THEN [m |-> BigPow2(52), e |-> e + s + 1]
             ELSE [m |-> m, e |-> e + s]

\* float(n) of a non-negative integer
FloatOfInt(n) == FloatRound(BigOfNat(n), 0)

\* x * y
FloatMul(x, y) == FloatRound(BigMul(x.m, y.m), x.e + y.e)

\* x / y: the quotient to 55 bits or more, doubled, plus one when a remainder
\* is left, rounded.
FloatDiv(x, y) ==
    LET d == BigDivMod(BigShiftLeft(x.m, 55), y.m)
    IN  IF d.r = <<>> THEN FloatRound(BigMulDigit(d.q, 2), x.e - y.e - 56)
        ELSE FloatRound(BigAdd(BigMulDigit(d.q, 2), <<1>>), x.e - y.e - 56)

\* x + y
FloatAdd(x, y) ==
    IF x = FloatZero THEN y
    ELSE IF y = FloatZero THEN x
    ELSE LET e == IF x.e < y.e THEN x.e ELSE y.e
         IN  FloatRound(BigAdd(BigShiftLeft(x.m, x.e - e),
                               BigShiftLeft(y.m, y.e - e)), e)

\* x <= y
FloatLeq(x, y) ==
    \/ x = FloatZero
    \/ /\ y # FloatZero
       /\ \/ x.e < y.e
          \/ x.e = y.e /\ ~BigLess(y.m, x.m)

\* The double a decimal of n units of 1e-8 denotes: the nearest to n / 10^8.
UnitsPerOne == 100000000
FloatOfUnits(n) == FloatDiv(FloatOfInt(n), FloatOfInt(UnitsPerOne))

\* int(a) of a number of digits
RECURSIVE NatOfBig(_)
NatOfBig(a) == IF a = <<>> THEN 0 ELSE Head(a) + Base * NatOfBig(Tail(a))

\* round(x) of a double: the nearest integer, a tie to the even one.
Round(x) ==
    IF x = FloatZero THEN 0
    ELSE IF x.e >= 0 THEN NatOfBig(BigShiftLeft(x.m, x.e))
    ELSE LET q == BigShiftRight(x.m, -x.e)
             r == BigSub(x.m, BigShiftLeft(q, -x.e))
             half == BigPow2(-x.e - 1)
             up == BigLess(half, r) \/ (r = half /\ Digit(q, 1) % 2 = 1)
         IN  NatOfBig(q) + (IF up THEN 1 ELSE 0)

(***************************************************************************)
(* The notebook: its code cells, run once each from top to bottom,         *)
(* starting in a fresh kernel.  A cell that raises leaves the bindings it  *)
(* made before the error, and the next cell is run after it.  A call into  *)
(* a library returns or takes the kernel down, as the saved output of cell *)
(* 24 records ("The Kernel crashed while executing code in the current     *)
(* cell or a previous cell"): the namespace is then lost, and the cells    *)
(* after it are run in the kernel that replaces it.  A call that reads a   *)
(* file or a saved account raises when it is not there.  The modules the   *)
(* cells import are installed, as the saved execution counts of cells 1,   *)
(* 13 and 19 record.                                                       *)
(***************************************************************************)
\* A step of a cell on the kernel's namespace: an import, assignment, def or
\* loop target binds a name; an expression looks a name up; a call of a
\* function, method or class of a library returns or takes the kernel down;
\* a call that reads what is outside the kernel raises the error named when
\* it is not there; and a statement may raise an error outright.
B(name) == <<"bind", name>>
U(name) == <<"use", name>>
L(name) == <<"call", name>>
F(error_name, name) == <<"file", error_name, name>>
R(error_name, name) == <<"raise", error_name, name>>

NumberOfCells == 30
JordanWignerCell == 10
TermCountCell == 11
QubitCountCell == 12
PreprocessCell == 14
StatisticsCell == 16
ConvertCell == 19
TrotterStepsCell == 26
LoadCircuitCell == 27
ShotLoopCell == 29
PlotCell == 30
\* The cells whose values are the work of the libraries alone.
LibraryCells ==
    (1..NumberOfCells) \ {JordanWignerCell, TermCountCell, QubitCountCell,
                          PreprocessCell, StatisticsCell, ConvertCell,
                          TrotterStepsCell, LoadCircuitCell, ShotLoopCell,
                          PlotCell}

\* The type cells 4 to 6 give the kernel's hamiltonian.
LibraryType(c) ==
    CASE c = 4 -> "MolecularData"
      [] c = 5 -> "InteractionOperator"
      [] c = 6 -> "FermionOperator"

\* openfermion_helper.get_num_qubits(hamiltonian_openfermion): the number of
\* qubits the operator acts on.
get_num_qubits(operator) ==
    Cardinality(UNION {{operator[i][1][j][1] : j \in 1..Len(operator[i][1])} :
                          i \in 1..Len(operator)})

\* convert.cirq_pauli_sum_to_qiskit_pauli_op(hamiltonian): the function of the
\* convert module, which the cell calls in place of its own def of that name.
convert_cirq_pauli_sum_to_qiskit_pauli_op(pauli_sum) ==
    cirq_pauli_sum_to_qiskit_pauli_op(pauli_sum)

\* np.sum of the first n doubles of a, added from left to right (as numpy
\* adds fewer than 8).
RECURSIVE FloatSum(_, _)
FloatSum(a, n) ==
    IF n = 0 THEN FloatZero ELSE FloatAdd(FloatSum(a, n - 1), a[n])

\* np.sum(np.abs(H.coeffs))
SumAbs(coeffs) ==
    FloatSum([i \in 1..Len(coeffs) |-> FloatOfUnits(Abs(coeffs[i]))], Len(coeffs))

\* epsilon: float = 0.001
epsilon == FloatOfUnits(Epsilon)

\* epsilons = [0.1, 0.01, 0.001]: the doubles nearest to 1/10, 1/100, 1/1000
Epsilons ==
    << FloatDiv(FloatOfInt(1), FloatOfInt(10)),
       FloatDiv(FloatOfInt(1), FloatOfInt(100)),
       FloatDiv(FloatOfInt(1), FloatOfInt(1000)) >>

\* base_shots / epsilon ** 2
ShotsAt(base_shots, eps) == FloatDiv(base_shots, FloatMul(eps, eps))

\* Values kcommute.compute_shots(groups_of, evec, epsilon=1) may return: 1.0,
\* 3.0 and 2.5.
BaseShots ==
    {FloatOfInt(1), FloatOfInt(3), FloatDiv(FloatOfInt(5), FloatOfInt(2))}

\* The rows the loop "for k in kvals" appends to all_shots, base[i] being the
\* base_shots of kvals[i].
ShotRows(ks, eps, base) ==
    [i \in 1..Len(ks) |-> [j \in 1..Len(eps) |-> ShotsAt(base[i], eps[j])]]

\* zip(a, b)
Zip(a, b) ==
    [i \in 1..(IF Len(a) < Len(b) THEN Len(a) ELSE Len(b)) |-> <<a[i], b[i]>>]

\* What an expression does on a hamiltonian that is not of a type it takes.
Needs(types, error_name, name) ==
    IF hamiltonian_type \in types THEN <<>> ELSE <<R(error_name, name)>>

\* Cell 14: inside preprocess_hamiltonian, cirq is looked up for the empty
\* sum and "of" when the first term is added.
PreprocessCellSteps ==
    <<U("preprocess_hamiltonian"), U("hamiltonian_openfermion"), U("cirq"),
      L("cirq.PauliSum")>>
    \o (IF \E i \in 1..Len(hamiltonian_openfermion) :
              DropScan(hamiltonian_openfermion[i][1], DropIdentity.list, 1).add_term
        THEN <<U("of"), U("of"), L("of.QubitOperator"),
               L("of.transforms.qubit_operator_to_pauli_sum")>>
        ELSE <<>>)
    \o <<B("hamiltonian")>>

\* Cell 16: len(hamiltonian) raises TypeError on anything but the PauliSum
\* of cell 14.
StatisticsCellSteps ==
    <<U("hamiltonian")>>
    \o Needs({"PauliSum"}, "TypeError", "len")
    \o <<B("nterms"), U("hamiltonian"), B("nqubits"), U("nqubits"), U("nterms")>>

\* Cell 19, the call coming to the result given: pauli_sum.qubits raises
\* AttributeError on anything but a PauliSum, the assert fails inside the
\* loop, before the constructor is called, and H is bound when the call
\* returns.
ConvertCellSteps(result) ==
    <<B("convert"), B("SparsePauliOp"), U("cirq"), U("SparsePauliOp"),
      B("cirq_pauli_sum_to_qiskit_pauli_op"), U("convert"), U("hamiltonian")>>
    \o Needs({"PauliSum"}, "AttributeError", "qubits")
    \o (IF result.status = "AssertionError"
        THEN <<R("AssertionError", "np.isclose")>>
        ELSE <<L("SparsePauliOp")>>
             \o (IF result.status = "returned" THEN <<B("H")>>
                 ELSE <<R(result.status, "SparsePauliOp")>>))

\* Cell 29: the assignments before the loop, then the first pass of the loop
\* (kvals has four elements); the later passes look up and bind the same names.
\* The comprehension reads base_shots once for each of the three epsilons.
ShotLoopCellSteps ==
    <<B("epsilons"), U("nqubits"), U("nqubits"), B("kvals"), B("all_shots"),
      U("kvals"), B("k"),
      U("kcommute"), U("hamiltonian"), U("k"), L("kcommute.get_si_sets"),
      B("groups"),
      U("convert"), U("groups"), L("convert.to_groups_of"), B("groups_of"),
      U("kcommute"), U("groups_of"), U("evec"), L("kcommute.compute_shots"),
      B("base_shots"),
      U("epsilons"), U("base_shots"), U("base_shots"), U("base_shots"),
      B("shots"),
      U("all_shots"), U("shots"), U("all_shots")>>

\* Cell 30: the body of the loop runs when zip(kvals, all_shots) is not empty.
PlotLoopSteps ==
    <<U("plt"), L("plt.rcParams.update"), U("kvals"), U("all_shots")>>
    \o (IF Zip(kvals, all_shots) # <<>>
        THEN <<B("kval"), B("shots"), U("plt"), U("epsilons"), U("shots"),
               U("kval"), L("plt.loglog")>>
        ELSE <<>>)

PlotCellSteps ==
    PlotLoopSteps
    \o <<U("plt"), L("plt.legend"), U("plt"), L("plt.xlabel"), U("plt"),
         L("plt.ylabel"), U("plt"), U("nqubits"), U("nterms"), L("plt.title")>>

\* The steps of code cell c, in the order the cell takes them.  Cells 5 to
\* 10 take the hamiltonian of the cell before and raise on an object of
\* another type.  The commented-out cells (15, 17, 18) take none; the steps
\* of cell 19 are ConvertCellSteps.
NotebookCell(c) ==
    CASE c = 1 ->
           <<B("pickle"), B("plt"), B("np"), B("scipy"), B("of"), B("run_pyscf"),
             B("geometry_from_pubchem"), B("MolecularData"),
             B("openfermion_helper"), B("qiskit"), B("qiskit"),
             B("qiskit_ibm_runtime"), B("PauliEvolutionGate"), B("LieTrotter"),
             B("SuzukiTrotter")>>
      [] c = 2 ->
           <<B("geometry"), B("basis"), B("multiplicity"), B("charge"),
             U("MolecularData"), U("geometry"), U("basis"), U("multiplicity"),
             U("charge"), L("MolecularData"), B("molecule"),
             U("run_pyscf"), U("molecule"), L("run_pyscf"), B("mol")>>
      [] c = 3 -> <<U("mol"), L("mol.save")>>
      [] c = 4 ->
           <<U("MolecularData"), U("molecule"), L("MolecularData"),
             B("hamiltonian")>>
      [] c = 5 ->
           <<U("hamiltonian")>>
           \o Needs({"MolecularData"}, "AttributeError",
                    "get_molecular_hamiltonian")
           \o <<L("hamiltonian.get_molecular_hamiltonian"), B("hamiltonian")>>
      [] c = 6 ->
           <<U("of"), U("hamiltonian")>>
           \o Needs({"InteractionOperator"}, "TypeError",
                    "of.get_fermion_operator")
           \o <<L("of.get_fermion_operator"), B("hamiltonian")>>
      [] c = 7 ->
           <<U("hamiltonian")>>
           \o Needs({"FermionOperator"}, "AttributeError", "terms")
      [] c = 8 ->
           <<B("threshold"), U("hamiltonian")>>
           \o Needs({"FermionOperator"}, "AttributeError", "compress")
           \o <<U("threshold"), L("hamiltonian.compress")>>
      [] c = 9 ->
           <<U("hamiltonian")>>
           \o Needs({"FermionOperator"}, "AttributeError", "terms")
      [] c = 10 ->
           <<U("of"), U("hamiltonian")>>
           \o Needs({"FermionOperator", "InteractionOperator"}, "TypeError",
                    "of.jordan_wigner")
           \o <<L("of.jordan_wigner"), B("hamiltonian_openfermion")>>
      [] c = 11 -> <<U("hamiltonian_openfermion"), B("nterms"), U("nterms")>>
      [] c = 12 ->
           <<U("openfermion_helper"), U("hamiltonian_openfermion"),
             L("openfermion_helper.get_num_qubits"), B("nqubits"),
             U("nqubits"), U("nterms")>>
      [] c = 13 -> <<B("cirq"), U("of"), U("cirq"), B("preprocess_hamiltonian")>>
      [] c = 14 -> PreprocessCellSteps
      [] c = 15 -> <<>>
      [] c = 16 -> StatisticsCellSteps
      [] c = 17 -> <<>>
      [] c = 18 -> <<>>
      [] c = 20 ->
           <<B("order"), B("cx_structure"), U("PauliEvolutionGate"), U("H"),
             U("order"), U("LieTrotter"), U("cx_structure"), L("LieTrotter"),
             L("PauliEvolutionGate"), B("trotter_step")>>
      [] c = 21 ->
           <<U("qiskit"), U("H"), L("qiskit.QuantumCircuit"), B("circuit"),
             U("circuit"), U("trotter_step"), U("H"), L("circuit.append")>>
      [] c = 22 ->
           <<U("circuit"), L("circuit.decompose"), B("circuit"),
             U("circuit"), L("circuit.depth"),
             U("circuit"), L("circuit.count_ops")>>
      [] c = 23 ->
           <<U("qiskit"), U("circuit"), L("qiskit.transpile"), B("compiled"),
             U("compiled"), L("compiled.depth"),
             U("compiled"), L("compiled.count_ops")>>
      [] c = 24 ->
           <<U("qiskit_ibm_runtime"), L("FakeKyiv"), B("computer"),
             U("qiskit"), U("compiled"), U("computer"), L("qiskit.transpile"),
             B("compiled_kyiv"),
             U("compiled_kyiv"), L("compiled_kyiv.depth"),
             U("compiled_kyiv"), L("compiled_kyiv.count_ops")>>
      [] c = 25 ->
           <<B("IBMQBackend"), B("tk_to_qiskit"), B("qiskit_to_tk"),
             U("IBMQBackend"), F("NoIBMQCredentialError", "saved account"),
             L("IBMQBackend"), B("ibmbackend"),
             U("qiskit_to_tk"), U("circuit"), L("qiskit_to_tk"),
             B("tket_circuit"),
             U("ibmbackend"), U("tket_circuit"),
             L("ibmbackend.get_compiled_circuit"), B("tket_compiled"),
             U("tk_to_qiskit"), U("tket_compiled"), L("tk_to_qiskit"),
             B("qisk_converted"),
             U("qisk_converted"), L("qisk_converted.depth"),
             U("qisk_converted"), L("qisk_converted.count_ops")>>
      [] c = 26 ->
           <<U("np"), U("np"), U("H"), L("np.abs"), L("np.sum"), B("error"),
             B("epsilon"), U("error"), U("epsilon"), B("nsteps"), U("nsteps")>>
      [] c = 27 ->
           <<U("qiskit"), U("pickle"),
             F("FileNotFoundError", "kyiv_circuit_h2o"),
             L("pickle.load"), L("qiskit.qasm3.loads"), B("circuit_vqe"),
             U("circuit_vqe"), L("circuit_vqe.depth"),
             U("circuit_vqe"),
             U("circuit_vqe"), L("circuit_vqe.num_nonlocal_gates"),
             U("circuit_vqe"), L("circuit_vqe.count_ops")>>
      [] c = 28 ->
           <<U("scipy"), U("of"), U("hamiltonian_openfermion"),
             L("of.linalg.get_sparse_operator"), L("scipy.sparse.linalg.eigsh"),
             B("eval"), B("evec"), U("evec"), L("evec.flatten"), B("evec")>>
      [] c = 29 -> ShotLoopCellSteps
      [] c = 30 -> PlotCellSteps

\* What a run of a cell meets outside the code: whether the file or the
\* account it reads is there, and the call at which the kernel dies (0: none).
Fates(steps) ==
    {[there |-> t, dies |-> d] :
        t \in (IF \E i \in 1..Len(steps) : steps[i][1] = "file"
               THEN BOOLEAN ELSE {TRUE}),
        d \in {0} \cup {i \in 1..Len(steps) : steps[i][1] = "call"}}

\* A run that stops at step i, having raised the error.
Stopped(bnd, i, error_name, name) ==
    [bound |-> bnd, done |-> i - 1, raised |-> <<error_name, name>>,
     died |-> FALSE]

\* The steps from step i on, in a namespace bnd, under a fate: the namespace
\* left, the number of steps taken, the error raised and what raised it, if
\* any, and whether the kernel died.
RECURSIVE RunSteps(_, _, _, _)
RunSteps(steps, i, bnd, fate) ==
    IF i > Len(steps)
    THEN [bound |-> bnd, done |-> Len(steps), raised |-> <<>>, died |-> FALSE]
    ELSE IF steps[i][1] = "bind"
         THEN RunSteps(steps, i + 1, bnd \cup {steps[i][2]}, fate)
    ELSE IF steps[i][1] = "use"
         THEN IF steps[i][2] \in bnd THEN RunSteps(steps, i + 1, bnd, fate)
              ELSE Stopped(bnd, i, "NameError", steps[i][2])
    ELSE IF steps[i][1] = "call"
         THEN IF fate.dies # i THEN RunSteps(steps, i + 1, bnd, fate)
              ELSE [bound |-> {}, done |-> i - 1,
                    raised |-> <<"KernelDied", steps[i][2]>>, died |-> TRUE]
    ELSE IF steps[i][1] = "file" /\ fate.there
         THEN RunSteps(steps, i + 1, bnd, fate)
    ELSE Stopped(bnd, i, steps[i][2], steps[i][3])

Run(steps, fate) == RunSteps(steps, 1, bound, fate)

\* The run r of the steps reached their binding of the name.
Assigns(steps, r, name) == \E i \in 1..r.done : steps[i] = B(name)

\* What a run that raised or returned leaves in the kernel, besides the
\* values it assigned.
Outcome(r) ==
    /\ bound' = r.bound
    /\ errors' = IF r.raised = <<>> THEN errors
                 ELSE errors \cup {<<cell>> \o r.raised}
    /\ cell' = cell + 1

\* The kernel died in the run r: the crash is reported under the cell, and
\* the kernel that replaces it holds nothing.
KernelDies(r) ==
    /\ cell' = cell + 1
    /\ errors' = errors \cup {<<cell>> \o r.raised}
    /\ bound' = {}
    /\ hamiltonian_openfermion' = <<>>
    /\ drop_term_if' = [is_none |-> TRUE, list |-> <<>>]
    /\ hamiltonian' = <<>>
    /\ hamiltonian_type' = "unbound"
    /\ calls' = <<>>
    /\ H' = NoOperator
    /\ nterms' = 0
    /\ nqubits' = 0
    /\ error' = FloatZero
    /\ nsteps' = 0
    /\ epsilons' = <<>>
    /\ kvals' = <<>>
    /\ all_shots' = <<>>
    /\ UNCHANGED <<pc, plotted>>

InitNotebook ==
    /\ pc = "notebook"
    /\ cell = 1
    /\ hamiltonian_openfermion = <<>>
    /\ drop_term_if = [is_none |-> TRUE, list |-> <<>>]
    /\ hamiltonian = <<>>
    /\ hamiltonian_type = "unbound"
    /\ calls = <<>>
    /\ H = NoOperator
    /\ bound = {}
    /\ errors = {}
    /\ nterms = 0
    /\ nqubits = 0
    /\ error = FloatZero
    /\ nsteps = 0
    /\ epsilons = <<>>
    /\ kvals = <<>>
    /\ all_shots = <<>>
    /\ plotted = <<>>

\* A cell that only imports, assigns and calls the libraries.  Cells 4 to 6
\* bind hamiltonian to objects of the libraries.
RunLibraryCell ==
    /\ cell \in LibraryCells
    /\ \E fate \in Fates(NotebookCell(cell)) :
          LET steps == NotebookCell(cell)
              r == Run(steps, fate)
          IN  IF r.died THEN KernelDies(r)
              ELSE /\ Outcome(r)
                   /\ hamiltonian_type' =
                         IF Assigns(steps, r, "hamiltonian")
                         THEN LibraryType(cell) ELSE hamiltonian_type
                   /\ UNCHANGED <<pc, hamiltonian_openfermion, drop_term_if,
                                  hamiltonian, calls, H, nterms, nqubits, error,
                                  nsteps, epsilons, kvals, all_shots, plotted>>

\* hamiltonian_openfermion = of.jordan_wigner(hamiltonian): the QubitOperator
\* the library makes of the molecule's Hamiltonian.
RunJordanWignerCell ==
    /\ cell = JordanWignerCell
    /\ \E fate \in Fates(NotebookCell(cell)) :
          LET steps == NotebookCell(cell)
              r == Run(steps, fate)
          IN  IF r.died THEN KernelDies(r)
              ELSE /\ Outcome(r)
                   /\ IF Assigns(steps, r, "hamiltonian_openfermion")
                      THEN hamiltonian_openfermion' \in
                              Operators(MaxNotebookTerms, NotebookTermPool,
                                        RealCoefficients)
                      ELSE UNCHANGED hamiltonian_openfermion
                   /\ UNCHANGED <<pc, drop_term_if, hamiltonian,
                                  hamiltonian_type, calls, H, nterms, nqubits,
                                  error, nsteps, epsilons, kvals, all_shots,
                                  plotted>>

\* nterms = len(hamiltonian_openfermion.terms)
RunTermCountCell ==
    /\ cell = TermCountCell
    /\ \E fate \in Fates(NotebookCell(cell)) :
          LET steps == NotebookCell(cell)
              r == Run(steps, fate)
          IN  IF r.died THEN KernelDies(r)
              ELSE /\ Outcome(r)
                   /\ nterms' = IF Assigns(steps, r, "nterms")
                                THEN Len(hamiltonian_openfermion) ELSE nterms
                   /\ UNCHANGED <<pc, hamiltonian_openfermion, drop_term_if,
                                  hamiltonian, hamiltonian_type, calls, H,
                                  nqubits, error, nsteps, epsilons, kvals,
                                  all_shots, plotted>>

\* nqubits = openfermion_helper.get_num_qubits(hamiltonian_openfermion)
RunQubitCountCell ==
    /\ cell = QubitCountCell
    /\ \E fate \in Fates(NotebookCell(cell)) :
          LET steps == NotebookCell(cell)
              r == Run(steps, fate)
          IN  IF r.died THEN KernelDies(r)
              ELSE /\ Outcome(r)
                   /\ nqubits' = IF Assigns(steps, r, "nqubits")
                                 THEN get_num_qubits(hamiltonian_openfermion)
                                 ELSE nqubits
                   /\ UNCHANGED <<pc, hamiltonian_openfermion, drop_term_if,
                                  hamiltonian, hamiltonian_type, calls, H,
                                  nterms, error, nsteps, epsilons, kvals,
                                  all_shots, plotted>>

\* hamiltonian = preprocess_hamiltonian(
\*     hamiltonian_openfermion, drop_term_if=[lambda term: term == ()])
RunPreprocessCell ==
    /\ cell = PreprocessCell
    /\ \E fate \in Fates(NotebookCell(cell)) :
          LET steps == NotebookCell(cell)
              r == Run(steps, fate)
          IN  IF r.died THEN KernelDies(r)
              ELSE /\ Outcome(r)
                   /\ IF Assigns(steps, r, "hamiltonian")
                      THEN /\ drop_term_if' = DropIdentity
                           /\ hamiltonian_type' = "PauliSum"
                           /\ hamiltonian' =
                                 preprocess_hamiltonian(hamiltonian_openfermion,
                                                        DropIdentity)
                           /\ calls' = PredicateCalls(hamiltonian_openfermion,
                                                      DropIdentity)
                      ELSE UNCHANGED <<drop_term_if, hamiltonian,
                                       hamiltonian_type, calls>>
                   /\ UNCHANGED <<pc, hamiltonian_openfermion, H, nterms,
                                  nqubits, error, nsteps, epsilons, kvals,
                                  all_shots, plotted>>

\* nterms = len(hamiltonian); nqubits = len(hamiltonian.qubits)
RunStatisticsCell ==
    /\ cell = StatisticsCell
    /\ \E fate \in Fates(NotebookCell(cell)) :
          LET steps == NotebookCell(cell)
              r == Run(steps, fate)
          IN  IF r.died THEN KernelDies(r)
              ELSE /\ Outcome(r)
                   /\ nterms' = IF Assigns(steps, r, "nterms")
                                THEN Len(hamiltonian) ELSE nterms
                   /\ nqubits' = IF Assigns(steps, r, "nqubits")
                                 THEN Len(PauliSumQubits(hamiltonian))
                                 ELSE nqubits
                   /\ UNCHANGED <<pc, hamiltonian_openfermion, drop_term_if,
                                  hamiltonian, hamiltonian_type, calls, H,
                                  error, nsteps, epsilons, kvals, all_shots,
                                  plotted>>

\* H = convert.cirq_pauli_sum_to_qiskit_pauli_op(hamiltonian)
RunConvertCell ==
    /\ cell = ConvertCell
    /\ \E result \in convert_cirq_pauli_sum_to_qiskit_pauli_op(hamiltonian) :
          \E fate \in Fates(ConvertCellSteps(result)) :
             LET steps == ConvertCellSteps(result)
                 r == Run(steps, fate)
             IN  IF r.died THEN KernelDies(r)
                 ELSE /\ Outcome(r)
                      /\ H' = IF Assigns(steps, r, "H") THEN result ELSE H
                      /\ UNCHANGED <<pc, hamiltonian_openfermion, drop_term_if,
                                     hamiltonian, hamiltonian_type, calls,
                                     nterms, nqubits, error, nsteps, epsilons,
                                     kvals, all_shots, plotted>>

\* error = np.sum(np.abs(H.coeffs)); nsteps = round(error / epsilon)
RunTrotterStepsCell ==
    /\ cell = TrotterStepsCell
    /\ \E fate \in Fates(NotebookCell(cell)) :
          LET steps == NotebookCell(cell)
              r == Run(steps, fate)
          IN  IF r.died THEN KernelDies(r)
              ELSE /\ Outcome(r)
                   /\ error' = IF Assigns(steps, r, "error")
                               THEN SumAbs(H.coeffs) ELSE error
                   /\ nsteps' = IF Assigns(steps, r, "nsteps")
                                THEN Round(FloatDiv(error', epsilon))
                                ELSE nsteps
                   /\ UNCHANGED <<pc, hamiltonian_openfermion, drop_term_if,
                                  hamiltonian, hamiltonian_type, calls, H,
                                  nterms, nqubits, epsilons, kvals, all_shots,
                                  plotted>>

\* circuit_vqe = qiskit.qasm3.loads(pickle.load(open("kyiv_circuit_h2o", "rb")))
RunLoadCircuitCell ==
    /\ cell = LoadCircuitCell
    /\ \E fate \in Fates(NotebookCell(cell)) :
          LET steps == NotebookCell(cell)
              r == Run(steps, fate)
          IN  IF r.died THEN KernelDies(r)
              ELSE /\ Outcome(r)
                   /\ UNCHANGED <<pc, hamiltonian_openfermion, drop_term_if,
                                  hamiltonian, hamiltonian_type, calls, H,
                                  nterms, nqubits, error, nsteps, epsilons,
                                  kvals, all_shots, plotted>>

\* The shot-count loop: a pass appends its row once base_shots and shots are
\* computed, and a pass that raises appends none.
RunShotLoopCell ==
    /\ cell = ShotLoopCell
    /\ \E fate \in Fates(NotebookCell(cell)) :
          LET steps == NotebookCell(cell)
              r == Run(steps, fate)
          IN  IF r.died THEN KernelDies(r)
              ELSE /\ Outcome(r)
                   /\ epsilons' = IF Assigns(steps, r, "epsilons")
                                  THEN Epsilons ELSE epsilons
                   /\ kvals' = IF Assigns(steps, r, "kvals")
                               THEN <<1, 2, nqubits \div 2, nqubits>> ELSE kvals
                   /\ IF ~Assigns(steps, r, "all_shots") THEN UNCHANGED all_shots
                      ELSE IF r.raised # <<>> THEN all_shots' = <<>>
                      ELSE \E base \in [1..Len(kvals') -> BaseShots] :
                              all_shots' = ShotRows(kvals', epsilons', base)
                   /\ UNCHANGED <<pc, hamiltonian_openfermion, drop_term_if,
                                  hamiltonian, hamiltonian_type, calls, H,
                                  nterms, nqubits, error, nsteps, plotted>>

\* for kval, shots in zip(kvals, all_shots): plt.loglog(epsilons, shots, ...)
RunPlotCell ==
    /\ cell = PlotCell
    /\ \E fate \in Fates(NotebookCell(cell)) :
          LET steps == NotebookCell(cell)
              r == Run(steps, fate)
          IN  IF r.died THEN KernelDies(r)
              ELSE /\ Outcome(r)
                   /\ plotted' = IF r.done >= Len(PlotLoopSteps)
                                 THEN Zip(kvals, all_shots) ELSE plotted
                   /\ UNCHANGED <<pc, hamiltonian_openfermion, drop_term_if,
                                  hamiltonian, hamiltonian_type, calls, H,
                                  nterms, nqubits, error, nsteps, epsilons,
                                  kvals, all_shots>>

NextNotebook ==
    \/ RunLibraryCell
    \/ RunJordanWignerCell
    \/ RunTermCountCell
    \/ RunQubitCountCell
    \/ RunPreprocessCell
    \/ RunStatisticsCell
    \/ RunConvertCell
    \/ RunTrotterStepsCell
    \/ RunLoadCircuitCell
    \/ RunShotLoopCell
    \/ RunPlotCell

SpecNotebook == InitNotebook /\ [][NextNotebook]_vars

(***************************************************************************)
(* SpecTrotter: runs of the Trotter-step cell (cell 26) in a kernel that   *)
(* holds numpy and an operator H                                           *)
(***************************************************************************)
\* The coefficients of H: 0.0004 and -0.0004, 0.0005, 0.001, 0.0012, 0.0015,
\* 0.0215 and 0.0255.
TrotterCoefficients ==
    {40000, -40000, 50000, 100000, 120000, 150000, 2150000, 2550000}

\* The operators of at most n terms; the labels play no part in the cell.
SparsePauliOps(n) ==
    UNION {{[status |-> "returned", terms |-> [i \in 1..k |-> <<"X">>],
             coeffs |-> coeffs] : coeffs \in [1..k -> TrotterCoefficients]} :
              k \in 1..n}

InitTrotter ==
    /\ pc = "trotter"
    /\ cell = TrotterStepsCell
    /\ hamiltonian_openfermion = <<>>
    /\ drop_term_if = [is_none |-> TRUE, list |-> <<>>]
    /\ hamiltonian = <<>>
    /\ hamiltonian_type = "unbound"
    /\ calls = <<>>
    /\ H \in SparsePauliOps(MaxCoefficients)
    /\ bound = {"np", "H"}
    /\ errors = {}
    /\ nterms = 0
    /\ nqubits = 0
    /\ error = FloatZero
    /\ nsteps = 0
    /\ epsilons = <<>>
    /\ kvals = <<>>
    /\ all_shots = <<>>
    /\ plotted = <<>>

NextTrotter == RunTrotterStepsCell

SpecTrotter == InitTrotter /\ [][NextTrotter]_vars

(***************************************************************************)
(* Properties                                                              *)
(***************************************************************************)
\* The qubit indices a term of a QubitOperator acts on.
TermQubits(term) == {term[i][1] : i \in 1..Len(term)}

\* The PauliSum term ps applies, to each qubit index, the letter that the
\* QubitOperator term applies to it, and nothing to any other qubit.
SamePaulis(ps, term) ==
    /\ DOMAIN ps.key = TermQubits(term)
    /\ \A i \in 1..Len(term) : cirq_pauli_to_str(ps.key[term[i][1]]) = term[i][2]

\* Some predicate of the list returns true on the term.
SomePredicateTrue(list, term) == \E j \in 1..Len(list) : Call(list[j], term)

\* The items of the input on which no predicate of drop_term_if returns true.
KeptItems ==
    {i \in 1..Len(hamiltonian_openfermion) :
        ~SomePredicateTrue(drop_term_if.list, hamiltonian_openfermion[i][1])}

\* The result holds the term of input item i.
InResult(i) ==
    \E k \in 1..Len(hamiltonian) :
        SamePaulis(hamiltonian[k], hamiltonian_openfermion[i][1])

\* C1: the result of preprocess_hamiltonian holds, for every input term on
\* which no predicate returns true, a term with the same Pauli letters on the
\* same qubit indices and the same coefficient; it holds no other term, and
\* as many terms as were kept.
C1_ExactlyTheKeptTerms ==
    pc = "preprocessed" =>
        /\ \A i \in KeptItems :
              \E k \in 1..Len(hamiltonian) :
                  /\ SamePaulis(hamiltonian[k], hamiltonian_openfermion[i][1])
                  /\ hamiltonian[k].coefficient = hamiltonian_openfermion[i][2]
        /\ \A k \in 1..Len(hamiltonian) :
              \E i \in KeptItems :
                  /\ SamePaulis(hamiltonian[k], hamiltonian_openfermion[i][1])
                  /\ hamiltonian[k].coefficient = hamiltonian_openfermion[i][2]
        /\ Len(hamiltonian) = Cardinality(KeptItems)

\* A call that keeps a two-qubit term on qubits 0 and 11 and drops another.
C1_Witness ==
    /\ pc = "preprocessed"
    /\ Len(hamiltonian_openfermion) = 2
    /\ Len(hamiltonian) = 1
    /\ DOMAIN hamiltonian[1].key = {0, 11}

\* The least position of the list whose predicate returns true on the term,
\* or the length of the list when none does.
LastCalled(list, term) ==
    IF SomePredicateTrue(list, term)
    THEN CHOOSE j \in 1..Len(list) :
            /\ Call(list[j], term)
            /\ \A m \in 1..(j - 1) : ~Call(list[m], term)
    ELSE Len(list)

\* C7: a term is dropped exactly when some predicate returns true on it; the
\* predicates are called in list order up to the first that returns true and
\* none after it; and drop_term_if = None keeps every term, as [] does.
C7_DropIffSomePredicate ==
    pc = "preprocessed" =>
        /\ \A i \in 1..Len(hamiltonian_openfermion) :
              /\ ~InResult(i) <=>
                    SomePredicateTrue(drop_term_if.list,
                                      hamiltonian_openfermion[i][1])
              /\ calls[i] =
                    [j \in 1..LastCalled(drop_term_if.list,
                                         hamiltonian_openfermion[i][1]) |-> j]
        /\ drop_term_if.is_none =>
              /\ \A i \in 1..Len(hamiltonian_openfermion) : InResult(i)
              /\ Len(hamiltonian) = Len(hamiltonian_openfermion)
              /\ hamiltonian =
                    preprocess_hamiltonian(hamiltonian_openfermion,
                                           [is_none |-> FALSE, list |-> <<>>])

\* A call with two predicates in which one term is dropped by the first
\* predicate, so that the second is not called on it, and another term is
\* dropped by the second after the first returned false.
C7_Witness ==
    /\ pc = "preprocessed"
    /\ Len(drop_term_if.list) = 2
    /\ \E i, k \in 1..Len(hamiltonian_openfermion) :
          /\ calls[i] = <<1>>
          /\ calls[k] = <<1, 2>>
          /\ ~InResult(i)
          /\ ~InResult(k)

\* The Pauli that Qiskit reads from a label for qubit j: the label's rightmost
\* character is qubit 0.
QiskitPauliOn(label, j) == label[Len(label) - j]

\* The letter a PauliSum term applies to a qubit, "I" when it applies none.
CirqPauliOn(ps, qubit) ==
    IF qubit \in DOMAIN ps.key THEN cirq_pauli_to_str(ps.key[qubit]) ELSE "I"

\* C2: the operator returned applies, to Qiskit qubit j, the Pauli that the
\* input term applies to the qubit at position j of pauli_sum.qubits.
C2_SameOperator ==
    (pc = "converted" /\ H.status = "returned") =>
        LET qubits == PauliSumQubits(hamiltonian)
        IN  \A i \in 1..Len(hamiltonian) :
                \A j \in 0..(Len(qubits) - 1) :
                    QiskitPauliOn(H.terms[i], j) =
                        CirqPauliOn(hamiltonian[i], qubits[j + 1])

\* C8: the conversion fails with an assertion error exactly when some
\* coefficient has an imaginary part farther than 1e-7 (10 units) from zero,
\* and then returns no operator; otherwise it returns one term per input
\* term, in the input's order, with the real part as coefficient.
C8_AssertionOrRealParts ==
    pc = "converted" =>
        LET fails == \E i \in 1..Len(hamiltonian) :
                        Abs(hamiltonian[i].coefficient[2]) > 10
        IN  /\ H.status = "AssertionError" <=> fails
            /\ fails => H.terms = <<>> /\ H.coeffs = <<>>
            /\ ~fails =>
                  /\ H.status = "returned"
                  /\ Len(H.terms) = Len(hamiltonian)
                  /\ Len(H.coeffs) = Len(hamiltonian)
                  /\ \A i \in 1..Len(hamiltonian) :
                        /\ H.coeffs[i] = hamiltonian[i].coefficient[1]
                        /\ Cardinality({j \in 1..Len(H.terms[i]) :
                                           H.terms[i][j] # "I"})
                              = Cardinality(DOMAIN hamiltonian[i].key)

\* C3: the number of Trotter steps is at least 1 and reaches the accuracy,
\* nsteps * epsilon >= error, whenever error > 0.
C3_EnoughTrotterSteps ==
    (cell > TrotterStepsCell /\ "nsteps" \in bound /\ error # FloatZero) =>
        /\ nsteps >= 1
        /\ FloatLeq(error, FloatMul(FloatOfInt(nsteps), epsilon))

\* The qubit indices the QubitOperator acts on.
OperatorQubits(operator) ==
    UNION {TermQubits(operator[i][1]) : i \in 1..Len(operator)}

\* The items of the input operator that are the identity term.
IdentityItems ==
    {i \in 1..Len(hamiltonian_openfermion) : hamiltonian_openfermion[i][1] = <<>>}

\* C4: the "Drop identity" call removes the identity term and nothing else:
\* len(hamiltonian) after it is one less than len(hamiltonian_openfermion.terms)
\* when the input holds the identity term and equal to it otherwise, every
\* other term is kept with its coefficient, and the qubits acted on, and so
\* their number len(hamiltonian.qubits), are the input's.
C4_DropsOnlyTheIdentity ==
    (pc = "preprocessed" /\ drop_term_if = DropIdentity) =>
        /\ Len(hamiltonian) =
              Len(hamiltonian_openfermion) - Cardinality(IdentityItems)
        /\ Cardinality(IdentityItems) <= 1
        /\ \A i \in 1..Len(hamiltonian_openfermion) :
              InResult(i) <=> i \notin IdentityItems
        /\ \A i \in (1..Len(hamiltonian_openfermion)) \ IdentityItems :
              \E k \in 1..Len(hamiltonian) :
                  /\ SamePaulis(hamiltonian[k], hamiltonian_openfermion[i][1])
                  /\ hamiltonian[k].coefficient = hamiltonian_openfermion[i][2]
        /\ {PauliSumQubits(hamiltonian)[n] :
               n \in 1..Len(PauliSumQubits(hamiltonian))}
              = OperatorQubits(hamiltonian_openfermion)
        /\ Len(PauliSumQubits(hamiltonian))
              = Cardinality(OperatorQubits(hamiltonian_openfermion))

\* The call has dropped the identity term of an operator that held it and a
\* term on two qubits.
C4_Witness ==
    /\ pc = "preprocessed"
    /\ drop_term_if = DropIdentity
    /\ Cardinality(IdentityItems) = 1
    /\ Len(hamiltonian_openfermion) = 2
    /\ Len(hamiltonian) = 1
    /\ Len(PauliSumQubits(hamiltonian)) = 2

\* Every cell before the shot-count cell has returned: none raised, and the
\* kernel is the one the run started in.
EarlierCellsReturned == \A e \in errors : e[1] >= ShotLoopCell

\* C5: in a run in which every earlier cell returned, when the shot-count
\* cell is reached, kcommute, convert and openfermion_helper are bound, and
\* the cell raises no NameError.
C5_KcommuteBoundBeforeLoop ==
    EarlierCellsReturned =>
        /\ cell = ShotLoopCell =>
              {"kcommute", "convert", "openfermion_helper"} \subseteq bound
        /\ \A e \in errors : ~(e[1] = ShotLoopCell /\ e[2] = "NameError")

\* C6: in a run in which every earlier cell returned, after the loop
\* all_shots has one row per element of kvals, each row has one entry per
\* element of epsilons, the entry being base_shots / epsilon^2, a row does not
\* decrease as epsilon decreases, and the plot cell pairs every k with its
\* own row.
C6_OneRowPerK ==
    EarlierCellsReturned =>
        /\ cell > ShotLoopCell =>
              /\ Len(kvals) = 4
              /\ Len(all_shots) = Len(kvals)
              /\ \A i \in 1..Len(all_shots) :
                    /\ Len(all_shots[i]) = Len(epsilons)
                    /\ \E b \in BaseShots :
                          \A j \in 1..Len(epsilons) :
                              all_shots[i][j] = ShotsAt(b, epsilons[j])
                    /\ \A j \in 1..(Len(epsilons) - 1) :
                          FloatLeq(all_shots[i][j], all_shots[i][j + 1])
        /\ cell > PlotCell =>
              /\ Len(plotted) = Len(kvals)
              /\ \A i \in 1..Len(plotted) :
                    plotted[i] = <<kvals[i], all_shots[i]>>

====
